---- MODULE Spec2Model ----
(***************************************************************************)
(* The pipeline pane of git-igitt: PipelineViewState                       *)
(* (src/src/widgets/pipeline_view.rs) as a state machine.  The fields of   *)
(* the struct are the variables, every public method is an action, and     *)
(* the pure parts of the methods are operators.                            *)
(*                                                                         *)
(* Option<T> is a sequence of length at most one: None is <<>> and         *)
(* Some(x) is <<x>>.  A commit SHA is a natural number (the code only      *)
(* compares SHAs for equality and hashes them).  A HashMap is a function   *)
(* whose DOMAIN is the key set.                                            *)
(***************************************************************************)
EXTENDS Integers, Sequences, FiniteSets, TLC

VARIABLES
    details,          \* Option<PipelineDetails>
    current_sha,      \* Option<String>
    selected_stage,   \* usize, 0-based
    selected_job,     \* usize, 0-based
    scroll_x,         \* u16
    scroll_y,         \* u16
    error,            \* Option<String>
    loading,          \* bool
    cache,            \* HashMap<String, CachedPipeline>
    cache_order,      \* Vec<String>
    job_log_cache,    \* HashMap<u64, String>
    job_log,          \* Vec<LogLine>
    job_log_job_id,   \* Option<u64>
    job_log_scroll,   \* u16
    job_log_loading,  \* bool
    job_log_error,    \* Option<String>
    job_log_visible_height,  \* u16
    inserted,         \* history: cached keys by their latest insertion into the map
    inflight,         \* history: SHAs whose fetch was started and has not reported
    evictions,        \* history: cache_result calls made on a full cache
    last,             \* history: the method called last, with its arguments
    fcall             \* a call of a function without state: name, input, result

view == <<details, current_sha, selected_stage, selected_job, scroll_x, scroll_y,
          error, loading>>
log_pane == <<job_log, job_log_job_id, job_log_scroll, job_log_loading, job_log_error,
              job_log_visible_height>>
state == <<details, current_sha, selected_stage, selected_job, scroll_x, scroll_y,
           error, loading, cache, cache_order, job_log_cache, job_log, job_log_job_id,
           job_log_scroll, job_log_loading, job_log_error, job_log_visible_height>>
vars == <<details, current_sha, selected_stage, selected_job, scroll_x, scroll_y,
          error, loading, cache, cache_order, job_log_cache, job_log, job_log_job_id,
          job_log_scroll, job_log_loading, job_log_error, job_log_visible_height,
          inserted, inflight, evictions, last, fcall>>

---------------------------------------------------------------------------
(* Program constants and the bounds of the model.                          *)

MAX_CACHE_SIZE == 100
MIN_STAGE_WIDTH == 16
CONNECTOR_WIDTH == 5

\* named commit SHAs the operations are called with
NumSha == 2
\* stages per pipeline and jobs per stage of the pipelines that are fetched
MaxStages == 2
MaxJobs == 2
\* named commit SHAs that are cached while the cache is at its capacity
NumCachedSha == 1
\* cache_result calls on a full cache that a behaviour may contain
MaxEvictions == 1
\* jobs of a pipeline with running and failed jobs, and the start times they have
MaxActiveJobs == 3
NumStamps == 2
\* the jobs request answers with up to MaxApiJobs jobs, with ids 1..NumApiIds, of
\* NumStageNames stages
MaxApiJobs == 3
NumApiIds == 3
NumStageNames == 2
\* the stages laid out, and the viewport widths
MaxLayoutStages == 3
MaxWidth == 120
\* the pipelines request answers with up to MaxPipelines pipelines, with ids
\* 1..NumPipelineIds
MaxPipelines == 2
NumPipelineIds == 2
\* jobs of a stage whose status is derived
MaxStatusJobs == 3
\* lines of a raw job log, and heights of the log pane
MaxLogLines == 3
MaxVisible == 2
MaxParseLines == 4
\* named job ids cache_job_log is called with
NumJobIds == 3

Shas == 1..NumSha
CachedShas == 1..NumCachedSha

---------------------------------------------------------------------------
(* Option, HashMap and Vec helpers.                                        *)

None == <<>>
Some(x) == <<x>>
Unwrap(o) == o[1]

EmptyMap == [k \in {} |-> None]
MapRemove(m, k) == [x \in DOMAIN m \ {k} |-> m[x]]
MapInsert(m, k, v) == [x \in DOMAIN m \cup {k} |-> IF x = k THEN v ELSE m[x]]
MapGet(m, k) == IF k \in DOMAIN m THEN Some(m[k]) ELSE None

Range(s) == {s[i] : i \in 1..Len(s)}
\* a.saturating_sub(b) on unsigned integers
SatSub(a, b) == IF a >= b THEN a - b ELSE 0

---------------------------------------------------------------------------
(* PipelineStatus, Job, Stage, PipelineDetails (src/src/gitlab/models.rs)  *)
(* and CachedPipeline.  A String is a sequence of character codes.         *)

PipelineStatus == {"Created", "WaitingForResource", "Preparing", "Pending", "Running",
                   "Success", "Failed", "Canceled", "Canceling", "Skipped", "Manual",
                   "Scheduled"}

\* a job as the API gives it (the fields the program reads); a name whose length
\* matters is the sequence of its characters
JobRecord(id, name, stage, st, started, allow) ==
    [id |-> id, name |-> name, stage |-> stage, status |-> st, started_at |-> started,
     allow_failure |-> allow]
ApiJob(id, stage, st, started, allow) == JobRecord(id, <<>>, stage, st, started, allow)
Job(st, started) == ApiJob(0, "", st, started, None)
NamedStage(name, js) == [name |-> name, jobs |-> js]
Stage(js) == NamedStage("", js)
DetailsOf(pipeline, sts) == [pipeline |-> pipeline, stages |-> sts]
PipelineDetails(sts) == DetailsOf(None, sts)

Found(d) == [tag |-> "Found", details |-> d]
NotFound == [tag |-> "NotFound"]
Error(e) == [tag |-> "Error", msg |-> e]

\* &str comparison a > b: lexicographic on the bytes
RECURSIVE StrGt(_, _)
StrGt(a, b) ==
    IF a = <<>> THEN FALSE
    ELSE IF b = <<>> THEN TRUE
    ELSE IF a[1] # b[1] THEN a[1] > b[1]
    ELSE StrGt(Tail(a), Tail(b))

\* Option<String>::as_deref().unwrap_or("")
UnwrapOrEmpty(o) == IF o = None THEN <<>> ELSE Unwrap(o)

---------------------------------------------------------------------------
(* The result cache.                                                       *)

get_cached(c, sha) == MapGet(c, sha)

\* mutant: the newest key goes instead of the oldest
cache_evict_newest(c, o) ==
    IF Cardinality(DOMAIN c) >= MAX_CACHE_SIZE /\ o # <<>>
    THEN [cache |-> MapRemove(c, o[Len(o)]), cache_order |-> SubSeq(o, 1, Len(o) - 1)]
    ELSE [cache |-> c, cache_order |-> o]

\* mutant: the capacity test is > instead of >=
cache_evict_late(c, o) ==
    IF Cardinality(DOMAIN c) > MAX_CACHE_SIZE /\ o # <<>>
    THEN [cache |-> MapRemove(c, Head(o)), cache_order |-> Tail(o)]
    ELSE [cache |-> c, cache_order |-> o]

\* lines 58-63: the oldest key goes when the map is at capacity
cache_evict(c, o) ==
    IF Cardinality(DOMAIN c) >= MAX_CACHE_SIZE /\ o # <<>>
    THEN [cache |-> MapRemove(c, Head(o)), cache_order |-> Tail(o)]
    ELSE [cache |-> c, cache_order |-> o]

\* mutant: an entry the map already holds is kept (entry().or_insert)
cache_store_keeps_old(c, o, sha, result) ==
    [cache |-> IF sha \in DOMAIN c THEN c ELSE MapInsert(c, sha, result),
     cache_order |-> IF sha \notin DOMAIN c THEN Append(o, sha) ELSE o]

\* lines 64-67: the key is pushed when the map does not hold it, then stored
cache_store(c, o, sha, result) ==
    [cache |-> MapInsert(c, sha, result),
     cache_order |-> IF sha \notin DOMAIN c THEN Append(o, sha) ELSE o]

cache_result(c, o, sha, result) ==
    LET e == cache_evict(c, o)
    IN cache_store(e.cache, e.cache_order, sha, result)

\* mutant: the key stays in the eviction order
invalidate_cache_map_only(c, o, sha) ==
    [cache |-> MapRemove(c, sha), cache_order |-> o]

invalidate_cache(c, o, sha) ==
    [cache |-> MapRemove(c, sha),
     cache_order |-> LET Keep(s) == s # sha IN SelectSeq(o, Keep)]

---------------------------------------------------------------------------
(* The pure parts of the selection methods.  d is Option<PipelineDetails>, *)
(* st and jb are selected_stage and selected_job; the result is the new    *)
(* <<selected_stage, selected_job>>.                                       *)

\* mutant: the job index is not reset
select_next_stage_keeps_job(d, st, jb) ==
    IF d # None /\ st < SatSub(Len(Unwrap(d).stages), 1)
    THEN <<st + 1, jb>>
    ELSE <<st, jb>>

select_next_stage(d, st, jb) ==
    IF d # None /\ st < SatSub(Len(Unwrap(d).stages), 1)
    THEN <<st + 1, 0>>
    ELSE <<st, jb>>

select_prev_stage(d, st, jb) ==
    IF st > 0 THEN <<st - 1, 0>> ELSE <<st, jb>>

select_next_job(d, st, jb) ==
    IF d # None /\ st < Len(Unwrap(d).stages)
                /\ jb < SatSub(Len(Unwrap(d).stages[st + 1].jobs), 1)
    THEN <<st, jb + 1>>
    ELSE <<st, jb>>

select_prev_job(d, st, jb) ==
    IF jb > 0 THEN <<st, jb - 1>> ELSE <<st, jb>>

\* the <<stage_idx, job_idx>> pairs in the order the two nested loops visit them
RECURSIVE ScanOrder(_, _)
ScanOrder(stages, si) ==
    IF si > Len(stages) THEN <<>>
    ELSE [j \in 1..Len(stages[si].jobs) |-> <<si - 1, j - 1>>]
         \o ScanOrder(stages, si + 1)

JobAt(stages, pos) == stages[pos[1] + 1].jobs[pos[2] + 1]

\* mutant: the comparison is turned round
ts_beats_if_earlier(best, ts) == best = None \/ StrGt(Unwrap(best)[3], ts)

\* line 189: best.is_none_or(|(_, _, prev_ts)| ts > prev_ts)
ts_beats(best, ts) == best = None \/ StrGt(ts, Unwrap(best)[3])

\* lines 184-194: best is Option<(stage_idx, job_idx, ts)>
RECURSIVE ScanRunning(_, _, _, _)
ScanRunning(stages, order, i, best) ==
    IF i > Len(order) THEN best
    ELSE LET job == JobAt(stages, order[i])
             ts == UnwrapOrEmpty(job.started_at)
         IN IF job.status = "Running" /\ ts_beats(best, ts)
            THEN ScanRunning(stages, order, i + 1,
                             Some(<<order[i][1], order[i][2], ts>>))
            ELSE ScanRunning(stages, order, i + 1, best)

\* lines 200-208: the first Failed job in scan order, if any
RECURSIVE ScanFailed(_, _, _)
ScanFailed(stages, order, i) ==
    IF i > Len(order) THEN None
    ELSE IF JobAt(stages, order[i]).status = "Failed" THEN Some(order[i])
    ELSE ScanFailed(stages, order, i + 1)

auto_scroll_to_active(d, st, jb) ==
    IF d = None THEN <<st, jb>>
    ELSE LET stages == Unwrap(d).stages
             order == ScanOrder(stages, 1)
             best == ScanRunning(stages, order, 1, None)
             failed == ScanFailed(stages, order, 1)
         IN IF best # None THEN <<Unwrap(best)[1], Unwrap(best)[2]>>
            ELSE IF failed # None THEN Unwrap(failed)
            ELSE <<st, jb>>

\* mutant: a cached error is shown like a commit without pipeline
apply_cached_view_drops_error(cached) ==
    CASE cached.tag = "Found" -> [details |-> Some(cached.details), error |-> None]
      [] cached.tag = "NotFound" -> [details |-> None, error |-> None]
      [] cached.tag = "Error" -> [details |-> None, error |-> None]

\* lines 120-133: what apply_cached shows for a cache entry
apply_cached_view(cached) ==
    CASE cached.tag = "Found" -> [details |-> Some(cached.details), error |-> None]
      [] cached.tag = "NotFound" -> [details |-> None, error |-> None]
      [] cached.tag = "Error" -> [details |-> None, error |-> Some(cached.msg)]

---------------------------------------------------------------------------
(* The job log.  A raw log is the sequence of its lines (raw.lines()); a   *)
(* line is a section_end marker, a section_start marker or an output line. *)
(* A marker line of the raw text carries the characters after the marker's *)
(* prefix; once read, it carries the timestamp its second field parses to  *)
(* (None when it does not parse) and the section name.  An output line     *)
(* carries its HH:MM:SS prefix, if it has one, and the content left after  *)
(* the cleaning ("" when nothing visible is left).                         *)

SectionEnd(ts, name) == [kind |-> "section_end", ts |-> ts, name |-> name]
SectionStart(ts, name) == [kind |-> "section_start", ts |-> ts, name |-> name]
Output(ts, content) == [kind |-> "output", ts |-> ts, content |-> content]

LogLine(ts, content, duration) ==
    [timestamp |-> ts, content |-> content, duration |-> duration]

\* format!("{:02}:{:02}", mins, secs) as the pair of its two numbers
format_duration(seconds) == <<seconds \div 60, seconds % 60>>

\* str.parse::<u64>() of a text of characters: decimal digits only, at least one
Digits == <<"0", "1", "2", "3", "4", "5", "6", "7", "8", "9">>
DigitValue(c) == (CHOOSE i \in 1..10 : Digits[i] = c) - 1
RECURSIVE DecimalValue(_)
DecimalValue(s) ==
    IF s = <<>> THEN 0 ELSE DecimalValue(SubSeq(s, 1, Len(s) - 1)) * 10 + DigitValue(s[Len(s)])
parse_u64(s) ==
    IF s # <<>> /\ \A i \in 1..Len(s) : s[i] \in Range(Digits)
    THEN Some(DecimalValue(s))
    ELSE None

\* str.splitn(n, ':'): at most n parts, the last one holding the rest
RECURSIVE splitn(_, _)
splitn(n, s) ==
    IF n <= 1 \/ \A i \in 1..Len(s) : s[i] # ":"
    THEN <<s>>
    ELSE LET pos == CHOOSE i \in 1..Len(s) : s[i] = ":" /\ \A k \in 1..(i - 1) : s[k] # ":"
         IN <<SubSeq(s, 1, pos - 1)>> \o splitn(n - 1, SubSeq(s, pos + 1, Len(s)))

\* lines 347-354; marker is the text after "section_end:" or "section_start:"
extract_section_timestamp(marker) ==
    LET parts == splitn(3, marker)
    IN IF Len(parts) >= 2 THEN parse_u64(parts[2]) ELSE None

\* marker.splitn(3, ':').nth(2).unwrap_or("")
section_name(marker) ==
    LET parts == splitn(3, marker)
    IN IF Len(parts) >= 3 THEN parts[3] ELSE <<>>

\* a line of the raw text that holds a marker, with the text after the marker's
\* prefix
MarkerLine(kind, marker) == [kind |-> kind, marker |-> marker]

\* lines 370-373 and 398-402: what the loop reads from a line of the raw text
read_line(line) ==
    IF line.kind = "output" THEN line
    ELSE IF line.kind = "section_end"
    THEN SectionEnd(extract_section_timestamp(line.marker), section_name(line.marker))
    ELSE SectionStart(extract_section_timestamp(line.marker), section_name(line.marker))

\* one pass of the loop body of parse_gitlab_log over a line
parse_line(p, line) ==
    CASE line.kind = "section_end" ->
           \* the line holds no '\n', so nothing is pushed for the marker
           IF line.ts # None /\ line.name \in DOMAIN p.section_starts
           THEN [p EXCEPT !.pending_duration =
                     Some(format_duration(SatSub(Unwrap(line.ts),
                                                 p.section_starts[line.name])))]
           ELSE p
      [] line.kind = "section_start" ->
           IF line.ts # None
           THEN [p EXCEPT !.section_starts =
                     MapInsert(p.section_starts, line.name, Unwrap(line.ts))]
           ELSE p
      [] line.kind = "output" ->
           IF line.content = ""
           THEN p
           ELSE IF p.pending_duration # None /\ p.result # <<>>
           THEN [p EXCEPT !.pending_duration = None,
                          !.result[Len(p.result)].duration = p.pending_duration]
           ELSE [p EXCEPT !.pending_duration = None,
                          !.result = Append(p.result,
                                            LogLine(line.ts, line.content,
                                                    p.pending_duration))]

RECURSIVE parse_lines(_, _)
parse_lines(p, raw) ==
    IF raw = <<>> THEN p ELSE parse_lines(parse_line(p, read_line(Head(raw))), Tail(raw))

parse_gitlab_log(raw) ==
    parse_lines([result |-> <<>>, section_starts |-> EmptyMap,
                 pending_duration |-> None], raw).result

selected_job_is_running(d, st, jb) ==
    /\ d # None
    /\ st < Len(Unwrap(d).stages)
    /\ jb < Len(Unwrap(d).stages[st + 1].jobs)
    /\ Unwrap(d).stages[st + 1].jobs[jb + 1].status \in {"Running", "Pending"}

---------------------------------------------------------------------------
(* Stage::status (src/src/gitlab/models.rs).                               *)

\* allow_failure.unwrap_or(false)
unwrap_or_false(o) == IF o = None THEN FALSE ELSE Unwrap(o)

\* lines 123-136: the flags after the loop over the jobs from job i on
RECURSIVE status_flags(_, _, _)
status_flags(jobs, i, f) ==
    IF i > Len(jobs) THEN f
    ELSE LET job == jobs[i] IN
         status_flags(jobs, i + 1,
             CASE job.status = "Failed" ->
                    IF ~unwrap_or_false(job.allow_failure)
                    THEN [f EXCEPT !.has_failed = TRUE] ELSE f
               [] job.status = "Running" -> [f EXCEPT !.has_running = TRUE]
               [] job.status \in {"Pending", "WaitingForResource", "Preparing"} ->
                    [f EXCEPT !.has_pending = TRUE]
               [] OTHER -> f)

\* mutant: a running job outranks a failed one
stage_status_running_first(jobs) ==
    LET f == status_flags(jobs, 1, [has_running |-> FALSE, has_pending |-> FALSE,
                                    has_failed |-> FALSE])
    IN IF f.has_running THEN "Running"
       ELSE IF f.has_failed THEN "Failed"
       ELSE IF f.has_pending THEN "Pending"
       ELSE IF \A i \in 1..Len(jobs) : jobs[i].status = "Success" THEN "Success"
       ELSE IF \A i \in 1..Len(jobs) : jobs[i].status = "Skipped" THEN "Skipped"
       ELSE "Created"

\* lines 118-159
stage_status(jobs) ==
    LET f == status_flags(jobs, 1, [has_running |-> FALSE, has_pending |-> FALSE,
                                    has_failed |-> FALSE])
    IN IF f.has_failed THEN "Failed"
       ELSE IF f.has_running THEN "Running"
       ELSE IF f.has_pending THEN "Pending"
       ELSE IF \A i \in 1..Len(jobs) : jobs[i].status = "Success" THEN "Success"
       ELSE IF \A i \in 1..Len(jobs) : jobs[i].status = "Skipped" THEN "Skipped"
       ELSE "Created"

---------------------------------------------------------------------------
(* PipelineDetails::from_jobs (src/src/gitlab/models.rs).                  *)

\* mutant: every job opens a stage of its own
group_job_always_new(stages, job) == Append(stages, NamedStage(job.stage, <<job>>))

\* lines 185-192: the job joins the first stage of its name, or opens a new one
group_job(stages, job) ==
    LET found == {i \in 1..Len(stages) : stages[i].name = job.stage}
    IN IF found # {}
       THEN LET i == CHOOSE x \in found : \A y \in found : x <= y
            IN [stages EXCEPT ![i].jobs = Append(@, job)]
       ELSE Append(stages, NamedStage(job.stage, <<job>>))

\* lines 184-193
RECURSIVE group_jobs(_, _)
group_jobs(stages, jobs) ==
    IF jobs = <<>> THEN stages
    ELSE group_jobs(group_job(stages, Head(jobs)), Tail(jobs))

\* s.jobs.iter().map(|j| j.id).min(): None for a stage without jobs
min_job_id(stage) ==
    IF stage.jobs = <<>> THEN None
    ELSE LET ids == {stage.jobs[i].id : i \in 1..Len(stage.jobs)}
         IN Some(CHOOSE x \in ids : \A y \in ids : x <= y)

\* a <= b on the sort keys, .unwrap_or(u64::MAX) making None the greatest key
\* (every id of the model is below u64::MAX)
key_le(a, b) == b = None \/ (a # None /\ Unwrap(a) <= Unwrap(b))

\* the stage goes behind the stages whose key is not greater (the sort is stable)
insert_by_key(sorted, stage) ==
    LET behind == {i \in 1..Len(sorted) : key_le(min_job_id(sorted[i]), min_job_id(stage))}
        n == Cardinality(behind)
    IN SubSeq(sorted, 1, n) \o <<stage>> \o SubSeq(sorted, n + 1, Len(sorted))

\* mutant: the stages stay in first-seen order
sort_stages_first_seen(sorted, stages) == sorted \o stages

\* line 195: stages.sort_by_key(min job id)
RECURSIVE sort_stages(_, _)
sort_stages(sorted, stages) ==
    IF stages = <<>> THEN sorted
    ELSE sort_stages(insert_by_key(sorted, Head(stages)), Tail(stages))

\* lines 181-201
from_jobs(pipeline, jobs) ==
    DetailsOf(Some(pipeline), sort_stages(<<>>, group_jobs(<<>>, jobs)))

---------------------------------------------------------------------------
(* GitLabClient (src/src/gitlab/mod.rs).  The answer to a request is       *)
(* "failed" (send() fails), a status that is not a success, a body that    *)
(* does not parse, or a parsed body.                                       *)

Ok(x) == [ok |-> TRUE, val |-> x]
Err(e) == [ok |-> FALSE, val |-> e]

NoAnswer == [tag |-> "failed"]
Status(code) == [tag |-> "status", code |-> code]
BadBody == [tag |-> "body"]
Body(x) == [tag |-> "parsed", body |-> x]

\* lines 51-63 and 81-93: send, the status test and the parse of the body
response(answer, what) ==
    CASE answer.tag = "failed" -> Err(<<"Request failed">>)
      [] answer.tag = "status" -> Err(<<"GitLab API error", answer.code>>)
      [] answer.tag = "body" -> Err(<<"Failed to parse", what>>)
      [] answer.tag = "parsed" -> Ok(answer.body)

\* mutant: the last pipeline of the answer is taken
get_pipeline_for_commit_last(answer) ==
    LET r == response(answer, "pipelines")
    IN IF ~r.ok THEN r
       ELSE Ok(IF r.val = <<>> THEN None ELSE Some(r.val[Len(r.val)]))

\* lines 39-67: Ok(pipelines.into_iter().next())
get_pipeline_for_commit(answer) ==
    LET r == response(answer, "pipelines")
    IN IF ~r.ok THEN r
       ELSE Ok(IF r.val = <<>> THEN None ELSE Some(Head(r.val)))

\* lines 69-95
get_pipeline_jobs(answer) == response(answer, "jobs")

---------------------------------------------------------------------------
(* The layout of the stage boxes: calculate_stage_width, calculate_layout  *)
(* (src/src/widgets/pipeline_view.rs).  u16 arithmetic is kept modulo      *)
(* 2^16.                                                                   *)

U16(x) == x % 65536
Min2(a, b) == IF a <= b THEN a ELSE b
Max2(a, b) == IF a >= b THEN a ELSE b
\* iter().max().unwrap_or(0)
MaxOr0(S) == IF S = {} THEN 0 ELSE CHOOSE x \in S : \A y \in S : y <= x
RECURSIVE SumU16(_)
SumU16(ws) == IF ws = <<>> THEN 0 ELSE U16(Head(ws) + SumU16(Tail(ws)))

\* lines 822-833
calculate_stage_width(stage) ==
    LET header_width == U16(U16(Len(stage.name)) + 8)
        max_job_width ==
            MaxOr0({U16(U16(Len(stage.jobs[i].name)) + 5) : i \in 1..Len(stage.jobs)})
    IN Max2(Max2(header_width, max_job_width), MIN_STAGE_WIDTH)

StageLayout(x, y, width, height) == [x |-> x, y |-> y, width |-> width, height |-> height]
LayoutInfo(stages, total_height) == [stages |-> stages, total_height |-> total_height]

\* mutant: the boxes of a row stand side by side without the connector
row_boxes_abutting(widths, x, y, height) ==
    [i \in 1..Len(widths) |->
        StageLayout(U16(x + SumU16(SubSeq(widths, 1, i - 1))), y, widths[i], height)]

\* the boxes of one row from x on: each box starts where the one before ends,
\* plus the connector
row_boxes(widths, x, y, height) ==
    [i \in 1..Len(widths) |->
        StageLayout(U16(x + SumU16(SubSeq(widths, 1, i - 1)) + (i - 1) * CONNECTOR_WIDTH),
                    y, widths[i], height)]

\* mutant: the height of a row follows its first stage
row_height_of_first(stages) ==
    U16((IF stages = <<>> THEN 0 ELSE Len(stages[1].jobs)) + 2)

\* max_jobs as u16 + 2
row_height_of(stages) == U16(MaxOr0({Len(stages[i].jobs) : i \in 1..Len(stages)}) + 2)

\* (w * avail / sum).max(MIN_STAGE_WIDTH) as u16; the product of two u16 is
\* within u32
shrink(w, avail, sum) == U16(Max2((w * avail) \div sum, MIN_STAGE_WIDTH))

\* lines 956-964: the greedy scan of the stages of a row from stage i on (0-based)
RECURSIVE scan_row(_, _, _, _, _, _)
scan_row(ideal_widths, row_start, row_avail, i, row_width, row_end) ==
    IF i >= Len(ideal_widths) THEN row_end
    ELSE LET w == Min2(ideal_widths[i + 1], row_avail)
             conn == IF i > row_start THEN CONNECTOR_WIDTH ELSE 0
         IN IF U16(row_width + conn + w) > row_avail /\ i > row_start
            THEN row_end
            ELSE scan_row(ideal_widths, row_start, row_avail, i + 1,
                          U16(row_width + conn + w), i + 1)

\* lines 975-990: the widths of a row that is too wide are shrunk proportionally
fit_row(row_widths, row_avail) ==
    LET row_conn == U16(SatSub(Len(row_widths), 1) * CONNECTOR_WIDTH)
        row_total == U16(SumU16(row_widths) + row_conn)
        avail == SatSub(row_avail, row_conn)
        sum_w == SumU16(row_widths)
    IN IF row_total > row_avail /\ sum_w > 0
       THEN [i \in 1..Len(row_widths) |-> shrink(row_widths[i], avail, sum_w)]
       ELSE row_widths

\* lines 948-1025: the rows from stage row_start on
RECURSIVE wrap_rows(_, _, _, _, _, _, _)
wrap_rows(stages, ideal_widths, area, row_start, row_index, y, boxes) ==
    IF row_start >= Len(stages) THEN [stages |-> boxes, y |-> y]
    ELSE LET wrap_margin == IF row_index > 0 THEN 3 ELSE 0
             row_avail == SatSub(area.width, wrap_margin)
             scanned == scan_row(ideal_widths, row_start, row_avail, row_start, 0, row_start)
             row_end == IF scanned = row_start THEN row_start + 1 ELSE scanned
             row_stages == SubSeq(stages, row_start + 1, row_end)
             cut == [i \in 1..(row_end - row_start) |->
                        Min2(ideal_widths[row_start + i], row_avail)]
             row_widths == fit_row(cut, row_avail)
             row_conn == U16(SatSub(Len(row_widths), 1) * CONNECTOR_WIDTH)
             actual_total == U16(SumU16(row_widths) + row_conn)
             left_pad == IF row_index > 0
                         THEN U16(wrap_margin + SatSub(row_avail, actual_total) \div 2)
                         ELSE SatSub(area.width, actual_total) \div 2
             row_height == row_height_of(row_stages)
             next_y == IF row_end < Len(stages) THEN U16(y + row_height + 1)
                       ELSE U16(y + row_height)
         IN wrap_rows(stages, ideal_widths, area, row_end, U16(row_index + 1), next_y,
                      boxes \o row_boxes(row_widths, U16(area.x + left_pad), y, row_height))

\* mutant: the shrunk row is used only when no width was raised to the minimum
shrunk_fits_unraised(shrunk, shrunk_total, width) ==
    shrunk_total <= width /\ \A i \in 1..Len(shrunk) : shrunk[i] > MIN_STAGE_WIDTH

\* line 912: if shrunk_total <= area.width
shrunk_fits(shrunk, shrunk_total, width) == shrunk_total <= width

\* lines 847-1032
calculate_layout(d, rect) ==
    LET num_stages == Len(d.stages)
        area == [rect EXCEPT !.y = U16(rect.y + 1), !.height = SatSub(rect.height, 1)]
        ideal_widths == [i \in 1..num_stages |-> calculate_stage_width(d.stages[i])]
        connector_total == U16(SatSub(U16(num_stages), 1) * CONNECTOR_WIDTH)
        total_ideal == U16(SumU16(ideal_widths) + connector_total)
        row_height == row_height_of(d.stages)
        avail_for_stages == SatSub(area.width, connector_total)
        sum_ideal == SumU16(ideal_widths)
        shrunk == [i \in 1..num_stages |-> shrink(ideal_widths[i], avail_for_stages, sum_ideal)]
        shrunk_total == U16(SumU16(shrunk) + connector_total)
        wrapped == wrap_rows(d.stages, ideal_widths, area, 0, 0, area.y, <<>>)
    IN IF num_stages = 0 THEN LayoutInfo(<<>>, 0)
       ELSE IF total_ideal <= area.width
       THEN LayoutInfo(row_boxes(ideal_widths,
                                 U16(area.x + SatSub(area.width, total_ideal) \div 2),
                                 area.y, row_height),
                       row_height)
       ELSE IF /\ sum_ideal > 0
               /\ avail_for_stages >= U16(U16(num_stages) * MIN_STAGE_WIDTH)
               /\ shrunk_fits(shrunk, shrunk_total, area.width)
       THEN LayoutInfo(row_boxes(shrunk,
                                 U16(area.x + SatSub(area.width, shrunk_total) \div 2),
                                 area.y, row_height),
                       row_height)
       ELSE LayoutInfo(wrapped.stages, SatSub(wrapped.y, area.y))

\* mutant: the rows after the first are counted without the wrap margin
RECURSIVE count_rows_no_margin(_, _, _, _)
count_rows_no_margin(ideal_widths, available_width, row_start, rows) ==
    IF row_start >= Len(ideal_widths) THEN rows
    ELSE LET scanned == scan_row(ideal_widths, row_start, available_width, row_start, 0,
                                 row_start)
             row_end == IF scanned = row_start THEN row_start + 1 ELSE scanned
         IN count_rows_no_margin(ideal_widths, available_width, row_end, U16(rows + 1))

\* lines 295-318: the rows from stage row_start on are counted; the scan of a
\* row (lines 301-309) is the scan of calculate_layout
RECURSIVE count_rows(_, _, _, _)
count_rows(ideal_widths, available_width, row_start, rows) ==
    IF row_start >= Len(ideal_widths) THEN rows
    ELSE LET wrap_margin == IF rows > 0 THEN 3 ELSE 0
             row_avail == SatSub(available_width, wrap_margin)
             scanned == scan_row(ideal_widths, row_start, row_avail, row_start, 0, row_start)
             row_end == IF scanned = row_start THEN row_start + 1 ELSE scanned
         IN count_rows(ideal_widths, available_width, row_end, U16(rows + 1))

\* lines 267-320; d is self.details
row_count(d, available_width) ==
    IF d = None \/ Unwrap(d).stages = <<>> THEN 0
    ELSE LET stages == Unwrap(d).stages
             num_stages == Len(stages)
             ideal_widths == [i \in 1..num_stages |-> calculate_stage_width(stages[i])]
             connector_total == U16(SatSub(U16(num_stages), 1) * CONNECTOR_WIDTH)
             total_ideal == U16(SumU16(ideal_widths) + connector_total)
             avail_for_stages == SatSub(available_width, connector_total)
             sum_ideal == SumU16(ideal_widths)
             shrunk_total ==
                 U16(SumU16([i \in 1..num_stages |->
                                shrink(ideal_widths[i], avail_for_stages, sum_ideal)])
                     + connector_total)
         IN IF total_ideal <= available_width THEN 1
            ELSE IF /\ sum_ideal > 0
                    /\ avail_for_stages >= U16(U16(num_stages) * MIN_STAGE_WIDTH)
                    /\ shrunk_total <= available_width
            THEN 1
            ELSE count_rows(ideal_widths, available_width, 0, 0)

---------------------------------------------------------------------------
(* PipelineView::render (src/src/widgets/pipeline_view.rs): what is drawn, *)
(* and the scroll offset it leaves.                                        *)

Drawn(kind, text) == [kind |-> kind, text |-> text]

\* lines 1446-1487: the branches that end the drawing before the boxes
render_branch(is_loading, err, d, inner_area) ==
    IF inner_area.width < 1 \/ inner_area.height < 1 THEN Drawn("nothing", "")
    ELSE IF is_loading /\ d = None THEN Drawn("message", "Loading pipeline...")
    ELSE IF err # None THEN Drawn("error", Unwrap(err))
    ELSE IF d = None THEN Drawn("message", "No pipeline for this commit")
    ELSE IF Unwrap(d).stages = <<>> THEN Drawn("message", "Pipeline has no stages")
    ELSE Drawn("boxes", "")

\* lines 1489-1494
content_area_of(inner_area) ==
    [inner_area EXCEPT !.height = SatSub(inner_area.height, 1)]

\* lines 1496-1513: the selected stage is scrolled into the window, and the
\* offset is capped
render_scroll_y(d, content_area, st, sy) ==
    LET layout == calculate_layout(d, content_area)
        followed ==
            IF st < Len(layout.stages)
            THEN LET sl == layout.stages[st + 1]
                     stage_top == SatSub(sl.y, content_area.y)
                     stage_bottom == U16(stage_top + sl.height)
                     down == IF stage_bottom > U16(sy + content_area.height)
                             THEN SatSub(stage_bottom, content_area.height)
                             ELSE sy
                 IN IF stage_top < U16(down + 1) THEN SatSub(stage_top, 1) ELSE down
            ELSE sy
        max_scroll == SatSub(layout.total_height, content_area.height)
    IN IF followed > max_scroll THEN max_scroll ELSE followed

---------------------------------------------------------------------------
(* History bookkeeping.                                                    *)

\* the call being made, with what the cache held for its SHA before the call:
\* full (at capacity), had (the entry of the SHA), again (the call before was
\* invalidate_cache of the same SHA)
Call(op, sha, arg) ==
    [op |-> op, sha |-> sha, arg |-> arg,
     full |-> Cardinality(DOMAIN cache) >= MAX_CACHE_SIZE,
     had |-> IF sha # None THEN get_cached(cache, Unwrap(sha)) ELSE None,
     again |-> sha # None /\ last.op = "invalidate_cache" /\ last.sha = sha]

\* the insertion history across one cache_result(sha, _): the keys the map lost
\* leave it, and sha joins at the end when the map does not hold it at the insert
InsertedAfter(c, o, ins, sha) ==
    LET e == cache_evict(c, o)
        Kept(k) == k \in DOMAIN e.cache
        kept == SelectSeq(ins, Kept)
    IN IF sha \notin DOMAIN e.cache THEN Append(kept, sha) ELSE kept

\* a cache_result call is made while the model's bound on evictions allows it
MayInsert == Cardinality(DOMAIN cache) < MAX_CACHE_SIZE \/ evictions < MaxEvictions
EvictionsAfter == IF Cardinality(DOMAIN cache) >= MAX_CACHE_SIZE THEN evictions + 1
                  ELSE evictions

---------------------------------------------------------------------------
(* The methods of PipelineViewState.                                       *)

Default ==
    /\ details = None
    /\ current_sha = None
    /\ selected_stage = 0
    /\ selected_job = 0
    /\ scroll_x = 0
    /\ scroll_y = 0
    /\ error = None
    /\ loading = FALSE
    /\ cache = EmptyMap
    /\ cache_order = <<>>
    /\ job_log_cache = EmptyMap
    /\ job_log = <<>>
    /\ job_log_job_id = None
    /\ job_log_scroll = 0
    /\ job_log_loading = FALSE
    /\ job_log_error = None
    /\ job_log_visible_height = 0
    /\ inserted = <<>>
    /\ inflight = {}
    /\ evictions = 0
    /\ last = [op |-> "new", sha |-> None, arg |-> None, full |-> FALSE, had |-> None,
               again |-> FALSE]

\* no function without state has been called
NoCall == [fn |-> "none", in |-> None, out |-> None]

Init == Default /\ fcall = NoCall

CacheResult(sha, result) ==
    /\ MayInsert
    /\ LET r == cache_result(cache, cache_order, sha, result)
       IN /\ cache' = r.cache
          /\ cache_order' = r.cache_order
    /\ inserted' = InsertedAfter(cache, cache_order, inserted, sha)
    /\ evictions' = EvictionsAfter
    /\ last' = Call("cache_result", Some(sha), result)
    /\ UNCHANGED <<view, job_log_cache, log_pane, fcall, inflight>>

InvalidateCache(sha) ==
    /\ LET r == invalidate_cache(cache, cache_order, sha)
       IN /\ cache' = r.cache
          /\ cache_order' = r.cache_order
    /\ inserted' = LET Kept(k) == k \in DOMAIN cache' IN SelectSeq(inserted, Kept)
    /\ last' = Call("invalidate_cache", Some(sha), None)
    /\ UNCHANGED <<view, job_log_cache, log_pane, fcall, inflight, evictions>>

\* lines 76-82 and 97-99: the outcome is cached when the SHA is Some
CacheOutcome(sha, cached) ==
    IF sha # None
    THEN /\ MayInsert
         /\ LET r == cache_result(cache, cache_order, Unwrap(sha), cached)
            IN /\ cache' = r.cache
               /\ cache_order' = r.cache_order
         /\ inserted' = InsertedAfter(cache, cache_order, inserted, Unwrap(sha))
         /\ evictions' = EvictionsAfter
         /\ inflight' = inflight \ {Unwrap(sha)}
    ELSE UNCHANGED <<cache, cache_order, inserted, evictions, inflight>>

\* mutant: a result for another commit resets the selection and leaves the
\* scroll offsets
SetPipelineKeepsScroll(sha, d) ==
    /\ CacheOutcome(sha, IF d # None THEN Found(Unwrap(d)) ELSE NotFound)
    /\ current_sha' = sha
    /\ details' = d
    /\ IF current_sha # sha
       THEN /\ selected_stage' = 0
            /\ selected_job' = 0
       ELSE UNCHANGED <<selected_stage, selected_job>>
    /\ UNCHANGED <<scroll_x, scroll_y>>
    /\ error' = None
    /\ loading' = FALSE
    /\ last' = Call("set_pipeline", sha, d)
    /\ UNCHANGED <<job_log_cache, log_pane, fcall>>

SetPipeline(sha, d) ==
    /\ CacheOutcome(sha, IF d # None THEN Found(Unwrap(d)) ELSE NotFound)
    /\ current_sha' = sha
    /\ details' = d
    /\ IF current_sha # sha
       THEN /\ selected_stage' = 0
            /\ selected_job' = 0
            /\ scroll_x' = 0
            /\ scroll_y' = 0
       ELSE UNCHANGED <<selected_stage, selected_job, scroll_x, scroll_y>>
    /\ error' = None
    /\ loading' = FALSE
    /\ last' = Call("set_pipeline", sha, d)
    /\ UNCHANGED <<job_log_cache, log_pane, fcall>>

SetError(sha, msg) ==
    /\ CacheOutcome(sha, Error(msg))
    /\ current_sha' = sha
    /\ error' = Some(msg)
    /\ loading' = FALSE
    /\ last' = Call("set_error", sha, msg)
    /\ UNCHANGED <<details, selected_stage, selected_job, scroll_x, scroll_y,
                   job_log_cache, log_pane, fcall>>

SetLoading(sha) ==
    /\ IF current_sha # sha
       THEN /\ details' = None
            /\ selected_stage' = 0
            /\ selected_job' = 0
       ELSE UNCHANGED <<details, selected_stage, selected_job>>
    /\ current_sha' = sha
    /\ loading' = TRUE
    /\ error' = None
    /\ inflight' = IF sha # None THEN inflight \cup {Unwrap(sha)} ELSE inflight
    /\ last' = Call("set_loading", sha, None)
    /\ UNCHANGED <<scroll_x, scroll_y, cache, cache_order, job_log_cache, log_pane, fcall, inserted,
                   evictions>>

ApplyCached(sha, cached) ==
    /\ current_sha' = Some(sha)
    /\ loading' = FALSE
    /\ details' = apply_cached_view(cached).details
    /\ error' = apply_cached_view(cached).error
    /\ selected_stage' = 0
    /\ selected_job' = 0
    /\ last' = Call("apply_cached", Some(sha), cached)
    /\ UNCHANGED <<scroll_x, scroll_y, cache, cache_order, job_log_cache, log_pane, fcall, inserted,
                   inflight, evictions>>

\* a selection method: only the two indices change (the call is recorded with
\* the cursor it found)
Select(op, sel) ==
    /\ selected_stage' = sel[1]
    /\ selected_job' = sel[2]
    /\ last' = Call(op, None, <<selected_stage, selected_job>>)
    /\ UNCHANGED <<details, current_sha, scroll_x, scroll_y, error, loading, cache,
                   cache_order, job_log_cache, log_pane, fcall, inserted, inflight, evictions>>

SelectNextStage ==
    Select("select_next_stage", select_next_stage(details, selected_stage, selected_job))

SelectPrevStage ==
    Select("select_prev_stage", select_prev_stage(details, selected_stage, selected_job))

SelectNextJob ==
    Select("select_next_job", select_next_job(details, selected_stage, selected_job))

SelectPrevJob ==
    Select("select_prev_job", select_prev_job(details, selected_stage, selected_job))

AutoScrollToActive ==
    Select("auto_scroll_to_active",
           auto_scroll_to_active(details, selected_stage, selected_job))

CacheJobLog(job_id, raw_text) ==
    /\ job_log_cache' = MapInsert(job_log_cache, job_id, raw_text)
    /\ last' = Call("cache_job_log", None, job_id)
    /\ UNCHANGED <<view, log_pane, fcall, cache, cache_order, inserted, inflight, evictions>>

\* the commits first, ..., first + n - 1 are visited one after the other and none
\* has a pipeline: n calls of cache_result(sha, NotFound) for SHAs the map does not
\* hold, none of them on a full cache, so that each one only pushes and stores
\* (lines 64-67)
CacheResults(first, n) ==
    /\ n > 0
    /\ DOMAIN cache \cap (first..(first + n - 1)) = {}
    /\ Cardinality(DOMAIN cache) + n <= MAX_CACHE_SIZE
    /\ cache' = [k \in DOMAIN cache \cup (first..(first + n - 1)) |->
                     IF k \in DOMAIN cache THEN cache[k] ELSE NotFound]
    /\ cache_order' = cache_order \o [i \in 1..n |-> first + i - 1]
    /\ inserted' = inserted \o [i \in 1..n |-> first + i - 1]
    /\ last' = Call("cache_result*", None, n)
    /\ UNCHANGED <<view, job_log_cache, log_pane, fcall, inflight, evictions>>

\* the logs of the jobs first, ..., first + n - 1 are cached: n calls of
\* cache_job_log(job_id, "log")
CacheJobLogs(first, n) ==
    /\ n > 0
    /\ DOMAIN job_log_cache \cap (first..(first + n - 1)) = {}
    /\ job_log_cache' = [k \in DOMAIN job_log_cache \cup (first..(first + n - 1)) |->
                             IF k \in DOMAIN job_log_cache THEN job_log_cache[k]
                             ELSE "log"]
    /\ last' = Call("cache_job_log*", None, n)
    /\ UNCHANGED <<view, log_pane, fcall, cache, cache_order, inserted, inflight, evictions>>

SetJobLog(job_id, log_text) ==
    /\ job_log' = parse_gitlab_log(log_text)
    /\ job_log_job_id' = Some(job_id)
    /\ job_log_loading' = FALSE
    /\ job_log_error' = None
    /\ IF selected_job_is_running(details, selected_stage, selected_job)
       THEN job_log_scroll' = SatSub(Len(job_log'), job_log_visible_height) % 65536
       ELSE UNCHANGED job_log_scroll
    /\ last' = Call("set_job_log", None, job_id)
    /\ UNCHANGED <<view, fcall, cache, cache_order, job_log_cache, job_log_visible_height,
                   inserted, inflight, evictions>>

ClearJobLog ==
    /\ job_log' = <<>>
    /\ job_log_job_id' = None
    /\ job_log_scroll' = 0
    /\ job_log_loading' = FALSE
    /\ job_log_error' = None
    /\ last' = Call("clear_job_log", None, None)
    /\ UNCHANGED <<view, fcall, cache, cache_order, job_log_cache, job_log_visible_height,
                   inserted, inflight, evictions>>

\* the pane is drawn h lines high: the public field is written
SetJobLogVisibleHeight(h) ==
    /\ job_log_visible_height' = h
    /\ last' = Call("job_log_visible_height", None, h)
    /\ UNCHANGED <<view, fcall, cache, cache_order, job_log_cache, job_log, job_log_job_id,
                   job_log_scroll, job_log_loading, job_log_error, inserted, inflight,
                   evictions>>

\* lines 1434-1766 (block: None): the drawing goes to the buffer, the state keeps
\* the scroll offset; the call is recorded with what was drawn
Render(inner_area) ==
    LET drawn == render_branch(loading, error, details, inner_area)
    IN /\ scroll_y' = IF drawn.kind = "boxes"
                      THEN render_scroll_y(Unwrap(details), content_area_of(inner_area),
                                           selected_stage, scroll_y)
                      ELSE scroll_y
       /\ last' = Call("render", None, [drawn |-> drawn, area |-> inner_area])
       /\ UNCHANGED <<details, current_sha, selected_stage, selected_job, scroll_x, error,
                      loading, cache, cache_order, job_log_cache, log_pane, fcall,
                      inserted, inflight, evictions>>

---------------------------------------------------------------------------
(* The inputs the methods are called with.                                 *)

OptShas == {None} \cup {Some(s) : s \in Shas}
Messages == {"timeout"}

SeqsUpTo(S, n) == UNION {[1..k -> S] : k \in 0..n}

\* pipelines of every shape: up to MaxStages stages of 0..MaxJobs finished jobs
IdleJob == Job("Success", None)
ShapeStages == {Stage([j \in 1..n |-> IdleJob]) : n \in 0..MaxJobs}
ShapeDetails == {PipelineDetails(sts) : sts \in SeqsUpTo(ShapeStages, MaxStages)}
OptShapeDetails == {None} \cup {Some(d) : d \in ShapeDetails}

\* the pipelines of the commits that are browsed: two stages (two jobs, one job),
\* one stage with one job, and a pipeline without stages
BuildTest == PipelineDetails(<<Stage(<<IdleJob, IdleJob>>), Stage(<<IdleJob>>)>>)
BuildOnly == PipelineDetails(<<Stage(<<IdleJob>>)>>)
NoStages == PipelineDetails(<<>>)
BrowsedDetails == {BuildTest, BuildOnly, NoStages}
OptBrowsedDetails == {None} \cup {Some(d) : d \in BrowsedDetails}

---------------------------------------------------------------------------
(* Spec: commits are browsed.  Fetches start and report, cached commits    *)
(* are shown from the cache, the cursor moves.                             *)

ShowCached(sha) ==
    /\ sha \in DOMAIN cache
    /\ ApplyCached(sha, cache[sha])

Next ==
    \/ \E sha \in OptShas : SetLoading(sha)
    \/ \E sha \in OptShas, d \in OptBrowsedDetails : SetPipeline(sha, d)
    \/ \E sha \in OptShas, msg \in Messages : SetError(sha, msg)
    \/ \E sha \in Shas : ShowCached(sha)
    \/ SelectNextStage
    \/ SelectPrevStage
    \/ SelectNextJob
    \/ SelectPrevJob
    \/ AutoScrollToActive

Spec == Init /\ [][Next]_vars

---------------------------------------------------------------------------
(* SpecSelect: the cursor on pipelines of every shape.  The results are    *)
(* delivered without a SHA, which leaves the cache alone; set_loading of a *)
(* commit makes the next result one for a changed SHA.                     *)

NextSelect ==
    \/ \E sha \in {None, Some(1)} : SetLoading(sha)
    \/ \E d \in OptShapeDetails : SetPipeline(None, d)
    \/ SelectNextStage
    \/ SelectPrevStage
    \/ SelectNextJob
    \/ SelectPrevJob

SpecSelect == Init /\ [][NextSelect]_vars

---------------------------------------------------------------------------
(* SpecScroll: auto_scroll_to_active on a pipeline with running, failed    *)
(* and finished jobs.  The start times are strings of one fixed format,    *)
(* two characters "hm" (as the timestamps of one server are), compared as  *)
(* strings by the code.  One pipeline is loaded in a behaviour; the cursor *)
(* moves over it before the auto-focus.                                    *)

StampList == <<(<<1, 2>>), (<<2, 1>>), (<<1, 1>>), (<<2, 2>>)>>
Stamps == {StampList[i] : i \in {k \in 1..Len(StampList) : k <= NumStamps}}
ActiveJobs == {Job("Running", None)} \cup {Job("Running", Some(t)) : t \in Stamps}
              \cup {Job("Failed", None), Job("Success", None)}

RECURSIVE Sum(_)
Sum(z) == IF z = <<>> THEN 0 ELSE Head(z) + Sum(Tail(z))

\* the jobs js in stages of the sizes sz
Sliced(js, sz) ==
    [i \in 1..Len(sz) |->
        Stage(SubSeq(js, Sum(SubSeq(sz, 1, i - 1)) + 1, Sum(SubSeq(sz, 1, i))))]

ActiveDetails ==
    UNION {{PipelineDetails(Sliced(js, sz)) :
                sz \in {z \in SeqsUpTo(0..MaxJobs, MaxStages) : Sum(z) = Len(js)}} :
           js \in SeqsUpTo(ActiveJobs, MaxActiveJobs)}

NextScroll ==
    \/ details = None /\ \E d \in ActiveDetails : SetPipeline(None, Some(d))
    \/ SelectNextStage
    \/ SelectNextJob
    \/ AutoScrollToActive

SpecScroll == Init /\ [][NextScroll]_vars

---------------------------------------------------------------------------
(* The claims.                                                             *)

StagesShown == Unwrap(details).stages

\* C1: whenever details holds at least one stage, selected_stage is smaller than
\* the number of stages, and selected_job is smaller than the number of jobs of
\* the selected stage when that stage has jobs.
C1_SelectionInBounds ==
    (details # None /\ Len(StagesShown) >= 1) =>
        /\ selected_stage < Len(StagesShown)
        /\ Len(StagesShown[selected_stage + 1].jobs) >= 1 =>
               selected_job < Len(StagesShown[selected_stage + 1].jobs)

\* the fetch that reports in this step is stale: its SHA was started with
\* set_loading, has not reported, and set_loading has since made another
\* commit the current one, whose own fetch is still out
StaleReport ==
    /\ last'.op \in {"set_pipeline", "set_error"}
    /\ last'.sha # None
    /\ Unwrap(last'.sha) \in inflight
    /\ loading
    /\ current_sha # None
    /\ current_sha # last'.sha
    /\ Unwrap(current_sha) \in inflight

\* C2: a fetch result for a commit that is no longer the current one is
\* discarded: current_sha, details, error and loading stay as set_loading of
\* the current commit left them.
C2_StaleResultDiscarded ==
    [][StaleReport => UNCHANGED <<current_sha, details, error, loading>>]_vars

\* C9: select_next_stage at the last stage or without details changes nothing,
\* select_prev_stage at stage 0 changes nothing, and a step of either that
\* changes selected_stage sets selected_job to 0.
C9_StageMoves ==
    [][/\ (/\ last'.op = "select_next_stage"
           /\ (details = None \/ selected_stage + 1 >= Len(StagesShown)))
          => UNCHANGED state
       /\ (last'.op = "select_prev_stage" /\ selected_stage = 0)
          => UNCHANGED state
       /\ (/\ last'.op \in {"select_next_stage", "select_prev_stage"}
           /\ selected_stage' # selected_stage)
          => selected_job' = 0]_vars

\* C9 witness: select_next_stage found the cursor on a job other than the first,
\* moved to the next stage and put the cursor on job 0
C9_Witness ==
    /\ last.op = "select_next_stage"
    /\ last.arg[2] > 0
    /\ selected_stage = last.arg[1] + 1
    /\ selected_job = 0

---------------------------------------------------------------------------
(* SpecCache: the result cache at its capacity.  Outcomes are cached by    *)
(* cache_result directly and by the fetches that report; a run of commits  *)
(* without pipelines fills the cache up to one below or up to capacity.    *)

Outcomes == {Found(BuildOnly), NotFound} \cup {Error(m) : m \in Messages}
OptCachedShas == {None} \cup {Some(s) : s \in CachedShas}
FillCounts == {MAX_CACHE_SIZE - Cardinality(DOMAIN cache) - 1,
               MAX_CACHE_SIZE - Cardinality(DOMAIN cache)}

NextCache ==
    \/ \E sha \in CachedShas, result \in Outcomes : CacheResult(sha, result)
    \/ \E sha \in CachedShas : InvalidateCache(sha)
    \/ \E sha \in OptCachedShas, d \in {None, Some(BuildOnly)} : SetPipeline(sha, d)
    \/ \E sha \in OptCachedShas, msg \in Messages : SetError(sha, msg)
    \/ \E sha \in CachedShas : ShowCached(sha)
    \/ \E n \in FillCounts : CacheResults(NumCachedSha + 1, n)

SpecCache == Init /\ [][NextCache]_vars

(* SpecJobLog: job logs are cached.                                        *)

NextJobLog ==
    \/ \E job_id \in 1..NumJobIds, raw_text \in {"log", "log\n"} :
           CacheJobLog(job_id, raw_text)
    \/ CacheJobLogs(NumJobIds + 1, MAX_CACHE_SIZE - Cardinality(DOMAIN job_log_cache))

SpecJobLog == Init /\ [][NextJobLog]_vars

\* a step that caches an outcome for a SHA: cache_result, or a fetch reporting
InsertStep ==
    /\ last'.op \in {"cache_result", "set_pipeline", "set_error"}
    /\ last'.sha # None

C4_CacheBounded == Cardinality(DOMAIN cache) <= MAX_CACHE_SIZE

\* C4 witness: an outcome was cached while the cache was full
C4_Witness ==
    /\ last.op \in {"cache_result", "set_pipeline", "set_error"}
    /\ last.sha # None
    /\ last.full
    /\ Cardinality(DOMAIN cache) = MAX_CACHE_SIZE

\* C5: the job-log cache holds at most MAX_CACHE_SIZE job ids.
C5_JobLogCacheBounded == Cardinality(DOMAIN job_log_cache) <= MAX_CACHE_SIZE

Reported ==
    IF last.op = "set_pipeline"
    THEN (IF last.arg # None THEN Found(Unwrap(last.arg)) ELSE NotFound)
    ELSE Error(last.arg)

\* C7: right after set_pipeline(Some(sha), Some(d)) the cache holds Found(d) for
\* sha, after set_pipeline(Some(sha), None) NotFound, and after
\* set_error(Some(sha), msg) Error(msg).
C7_OutcomeCached ==
    (last.op \in {"set_pipeline", "set_error"} /\ last.sha # None) =>
        get_cached(cache, Unwrap(last.sha)) = Some(Reported)

\* C7 witness: a pipeline was reported for a SHA for which the full cache held
\* another outcome
C7_Witness ==
    /\ last.op = "set_pipeline"
    /\ last.sha # None
    /\ last.arg # None
    /\ last.full
    /\ last.had # None
    /\ last.had # Some(Found(Unwrap(last.arg)))
    /\ get_cached(cache, Unwrap(last.sha)) = Some(Found(Unwrap(last.arg)))

\* C8: after apply_cached(sha, entry) current_sha is sha, loading is false,
\* (details, error) is (Some(d), None) for Found(d), (None, None) for NotFound and
\* (None, Some(e)) for Error(e), and the cache is as it was.
C8_ShownFromCache ==
    [][last'.op = "apply_cached" =>
          /\ current_sha' = last'.sha
          /\ loading' = FALSE
          /\ last'.arg.tag = "Found" =>
                 details' = Some(last'.arg.details) /\ error' = None
          /\ last'.arg.tag = "NotFound" => details' = None /\ error' = None
          /\ last'.arg.tag = "Error" =>
                 details' = None /\ error' = Some(last'.arg.msg)
          /\ UNCHANGED <<cache, cache_order>>]_vars

\* C8 witness: the cached error of a commit was shown
C8_Witness ==
    /\ last.op = "apply_cached"
    /\ last.had = Some(last.arg)
    /\ last.arg.tag = "Error"
    /\ current_sha = last.sha
    /\ error = Some(last.arg.msg)
    /\ details = None
    /\ ~loading

\* the positions <<stage_idx, job_idx>> of the jobs, and the scan order on them
Positions(stages) ==
    UNION {{<<si - 1, ji - 1>> : ji \in 1..Len(stages[si].jobs)} : si \in 1..Len(stages)}
Before(p, q) == p[1] < q[1] \/ (p[1] = q[1] /\ p[2] < q[2])
WithStatus(stages, st) == {p \in Positions(stages) : JobAt(stages, p).status = st}
\* the time a start timestamp "hm" stands for; no timestamp ranks lowest
TimeOf(started) == IF started = None THEN 0 ELSE 10 * Unwrap(started)[1] + Unwrap(started)[2]

\* C10: auto_scroll_to_active puts the cursor on a Running job that no other
\* Running job started after, if a job is Running; otherwise on the first Failed
\* job in stage-then-job order, if a job is Failed; otherwise the cursor stays.
C10_AutoFocus ==
    [][last'.op = "auto_scroll_to_active" =>
          LET sel == <<selected_stage', selected_job'>>
              running == WithStatus(StagesShown, "Running")
              failed == WithStatus(StagesShown, "Failed")
          IN IF details # None /\ running # {}
             THEN /\ sel \in running
                  /\ \A q \in running :
                         TimeOf(JobAt(StagesShown, q).started_at)
                             <= TimeOf(JobAt(StagesShown, sel).started_at)
             ELSE IF details # None /\ failed # {}
             THEN /\ sel \in failed
                  /\ \A q \in failed : ~Before(q, sel)
             ELSE sel = <<selected_stage, selected_job>>]_vars

\* C10 witness: the cursor was moved to the Running job that started last, past
\* a Running job that started before it and one without a start time
C10_Witness ==
    /\ last.op = "auto_scroll_to_active"
    /\ details # None
    /\ last.arg # <<selected_stage, selected_job>>
    /\ <<selected_stage, selected_job>> \in WithStatus(StagesShown, "Running")
    /\ \E p, q \in WithStatus(StagesShown, "Running") :
           /\ Before(p, q)
           /\ Before(q, <<selected_stage, selected_job>>)
           /\ JobAt(StagesShown, p).started_at = None
           /\ JobAt(StagesShown, q).started_at # None
           /\ TimeOf(JobAt(StagesShown, q).started_at)
                  < TimeOf(JobAt(StagesShown, <<selected_stage, selected_job>>).started_at)

---------------------------------------------------------------------------
(* SpecLog: job logs are loaded into the log pane while the cursor moves   *)
(* over a pipeline with a running, a pending and a finished job.           *)

\* the decimal digits of a number
RECURSIVE Decimal(_)
Decimal(n) == IF n < 10 THEN <<Digits[n + 1]>> ELSE Decimal(n \div 10) \o <<Digits[(n % 10) + 1]>>
\* the lines section_start:<ts>:<name> and section_end:<ts>:<name>
StartLine(ts, name) == MarkerLine("section_start", Decimal(ts) \o <<":">> \o name)
EndLine(ts, name) == MarkerLine("section_end", Decimal(ts) \o <<":">> \o name)
BuildName == <<"b", "u", "i", "l", "d">>

LogLines == {Output(None, "ok"), Output(None, ""), StartLine(100, BuildName),
             EndLine(145, BuildName)}
LogTexts == SeqsUpTo(LogLines, MaxLogLines)
RunningPipeline ==
    PipelineDetails(<<Stage(<<Job("Running", None), Job("Success", None),
                              Job("Pending", None)>>)>>)

NextLog ==
    \/ details = None /\ SetPipeline(None, Some(RunningPipeline))
    \/ SelectNextJob
    \/ SelectPrevJob
    \/ \E job_id \in 1..2, log_text \in LogTexts : SetJobLog(job_id, log_text)
    \/ ClearJobLog
    \/ \E h \in 0..MaxVisible : SetJobLogVisibleHeight(h)

SpecLog == Init /\ [][NextLog]_vars

\* C11: after set_job_log, job_log_scroll is the number of parsed lines minus the
\* visible height (or 0 when that is negative) if the selected job is running at
\* load time, and 0 otherwise, whatever the offset was before the call.
C11_LogScrollOnLoad ==
    [][last'.op = "set_job_log" =>
          job_log_scroll' =
              IF selected_job_is_running(details, selected_stage, selected_job)
              THEN SatSub(Len(job_log'), job_log_visible_height)
              ELSE 0]_vars

---------------------------------------------------------------------------
(* SpecStatus: Stage::status on every list of up to MaxStatusJobs jobs.    *)

\* the function named fn is called on the input of the pending call
Apply(fn, out) ==
    /\ fcall.fn = fn
    /\ fcall.out = None
    /\ fcall' = [fcall EXCEPT !.out = Some(out)]
    /\ UNCHANGED <<state, inserted, inflight, evictions, last>>

\* the calls of fn that wait to be made, one for each input
Calls(fn, inputs) == {[fn |-> fn, in |-> Some(x), out |-> None] : x \in inputs}

StatusJobs ==
    {ApiJob(0, "", st, None, None) : st \in PipelineStatus}
    \cup {ApiJob(0, "", "Failed", None, Some(a)) : a \in BOOLEAN}
    \cup {ApiJob(0, "", "Success", None, Some(TRUE))}
StatusJobLists == SeqsUpTo(StatusJobs, MaxStatusJobs)

StageStatus == Apply("Stage::status", stage_status(Unwrap(fcall.in)))

InitStatus == Default /\ fcall \in Calls("Stage::status", StatusJobLists)
SpecStatus == InitStatus /\ [][StageStatus]_vars

\* a job that failed and is not allowed to
RealFailure(job) == job.status = "Failed" /\ job.allow_failure \in {None, Some(FALSE)}
HasJob(jobs, Is(_)) == \E i \in 1..Len(jobs) : Is(jobs[i])
AllJobs(jobs, st) == \A i \in 1..Len(jobs) : jobs[i].status = st

\* C12: Stage::status is Failed if a job is Failed without allow_failure; else
\* Running if a job is Running; else Pending if a job is Pending,
\* WaitingForResource or Preparing; else Success if all jobs are Success; else
\* Skipped if all jobs are Skipped; else Created.
C12_StatusChain ==
    (fcall.fn = "Stage::status" /\ fcall.out # None) =>
        LET jobs == Unwrap(fcall.in)
            out == Unwrap(fcall.out)
            Running(j) == j.status = "Running"
            Waiting(j) == j.status \in {"Pending", "WaitingForResource", "Preparing"}
        IN out = IF HasJob(jobs, RealFailure) THEN "Failed"
                 ELSE IF HasJob(jobs, Running) THEN "Running"
                 ELSE IF HasJob(jobs, Waiting) THEN "Pending"
                 ELSE IF AllJobs(jobs, "Success") THEN "Success"
                 ELSE IF AllJobs(jobs, "Skipped") THEN "Skipped"
                 ELSE "Created"

\* C12 witness: a stage with an allowed failure and a running job is Running
C12_Witness ==
    /\ fcall.fn = "Stage::status"
    /\ fcall.out = Some("Running")
    /\ \E i \in 1..Len(Unwrap(fcall.in)) :
           /\ Unwrap(fcall.in)[i].status = "Failed"
           /\ Unwrap(fcall.in)[i].allow_failure = Some(TRUE)

\* C13: a stage with zero jobs reports Created.
C13_EmptyStageCreated ==
    (fcall.fn = "Stage::status" /\ fcall.out # None /\ Unwrap(fcall.in) = <<>>) =>
        fcall.out = Some("Created")

---------------------------------------------------------------------------
(* SpecFromJobs: PipelineDetails::from_jobs on the job lists of the API.   *)

StageNames == {n \in {"build", "test", "deploy", "release"} :
                   \/ n = "build"
                   \/ n = "test" /\ NumStageNames >= 2
                   \/ n = "deploy" /\ NumStageNames >= 3
                   \/ n = "release" /\ NumStageNames >= 4}
ApiJobs == {ApiJob(id, n, "Success", None, None) : id \in 1..NumApiIds, n \in StageNames}
ApiJobLists == SeqsUpTo(ApiJobs, MaxApiJobs)
ThePipeline == [id |-> 1]

FromJobs == Apply("from_jobs", from_jobs(ThePipeline, Unwrap(fcall.in)))

InitFromJobs == Default /\ fcall \in Calls("from_jobs", ApiJobLists)
SpecFromJobs == InitFromJobs /\ [][FromJobs]_vars

\* how often x stands in the sequence s
Count(s, x) == Cardinality({i \in 1..Len(s) : s[i] = x})
\* the jobs of the input with stage name n, in input order
OfStage(jobs, n) == LET Named(j) == j.stage = n IN SelectSeq(jobs, Named)
StageNamesOf(d) == [i \in 1..Len(d.stages) |-> d.stages[i].name]

\* C14: from_jobs puts each job into exactly one stage, the one of its stage
\* name: the stages are named differently, none is empty, and each holds the
\* jobs of its name in input order (so no job is dropped or duplicated).
C14_GroupedOnce ==
    (fcall.fn = "from_jobs" /\ fcall.out # None) =>
        LET jobs == Unwrap(fcall.in)
            stages == Unwrap(fcall.out).stages
        IN /\ \A i, k \in 1..Len(stages) : i # k => stages[i].name # stages[k].name
           /\ \A i \in 1..Len(stages) :
                  /\ stages[i].jobs # <<>>
                  /\ stages[i].jobs = OfStage(jobs, stages[i].name)
           /\ \A i \in 1..Len(jobs) : \E k \in 1..Len(stages) : stages[k].name = jobs[i].stage

\* C14 witness: jobs of two stages arrive interleaved and are sorted into them
C14_Witness ==
    /\ fcall.fn = "from_jobs"
    /\ fcall.out # None
    /\ Len(Unwrap(fcall.in)) = 3
    /\ Unwrap(fcall.in)[1].stage = Unwrap(fcall.in)[3].stage
    /\ Unwrap(fcall.in)[1].stage # Unwrap(fcall.in)[2].stage
    /\ Unwrap(fcall.in)[1] # Unwrap(fcall.in)[3]
    /\ Len(Unwrap(fcall.out).stages) = 2

\* the rearrangements of the sequence s
Rearranged(s) ==
    {[i \in 1..Len(s) |-> s[f[i]]] :
        f \in {g \in [1..Len(s) -> 1..Len(s)] : \A a, b \in 1..Len(s) : a # b => g[a] # g[b]}}
DistinctIds(jobs) == \A i, k \in 1..Len(jobs) : i # k => jobs[i].id # jobs[k].id

\* C15: the stages of from_jobs stand in ascending order of their minimum job
\* id, and for jobs with pairwise distinct ids every permutation of the input
\* gives the same order of stages.
C15_StageOrder ==
    (fcall.fn = "from_jobs" /\ fcall.out # None) =>
        LET jobs == Unwrap(fcall.in)
            out == Unwrap(fcall.out)
        IN /\ \A i \in 1..(Len(out.stages) - 1) :
                  Unwrap(min_job_id(out.stages[i])) <= Unwrap(min_job_id(out.stages[i + 1]))
           /\ DistinctIds(jobs) =>
                  \A q \in Rearranged(jobs) :
                      StageNamesOf(from_jobs(ThePipeline, q)) = StageNamesOf(out)

\* C15 witness: the stage seen first has the greater minimum id and comes second
C15_Witness ==
    /\ fcall.fn = "from_jobs"
    /\ fcall.out # None
    /\ DistinctIds(Unwrap(fcall.in))
    /\ Len(Unwrap(fcall.in)) = 3
    /\ Len(Unwrap(fcall.out).stages) = 2
    /\ Unwrap(fcall.out).stages[1].name # Unwrap(fcall.in)[1].stage

---------------------------------------------------------------------------
(* SpecClient: get_pipeline_details against a server whose answers are     *)
(* fixed at the start: one to the pipelines request, and one to the jobs   *)
(* request of every pipeline id.  fcall holds the position in the function *)
(* (pc), the pipeline found, and the requests sent so far.                 *)

Pipelines == {[id |-> i] : i \in 1..NumPipelineIds}
PipelineAnswers ==
    {NoAnswer, Status(404), BadBody} \cup {Body(ps) : ps \in SeqsUpTo(Pipelines, MaxPipelines)}
JobAnswers ==
    {NoAnswer, Status(500), BadBody}
    \cup {Body(js) : js \in {<<>>, <<ApiJob(1, "build", "Success", None, None)>>,
                             <<ApiJob(2, "test", "Running", None, None),
                               ApiJob(1, "build", "Success", None, None)>>}}
Servers == [pipelines : PipelineAnswers, jobs : [1..NumPipelineIds -> JobAnswers]]

PipelinesRequest == [kind |-> "pipelines", id |-> None]
JobsRequest(id) == [kind |-> "jobs", id |-> Some(id)]

\* lines 102-105: let pipeline = match self.get_pipeline_for_commit(..)? { .. }
RequestPipelines ==
    /\ fcall.fn = "get_pipeline_details"
    /\ fcall.pc = "get_pipeline_for_commit"
    /\ LET r == get_pipeline_for_commit(Unwrap(fcall.in).pipelines)
           sent == Append(fcall.requests, PipelinesRequest)
       IN fcall' =
              IF ~r.ok
              THEN [fcall EXCEPT !.requests = sent, !.pc = "return", !.out = Some(r)]
              ELSE IF r.val = None
              THEN [fcall EXCEPT !.requests = sent, !.pc = "return", !.out = Some(Ok(None))]
              ELSE [fcall EXCEPT !.requests = sent, !.pc = "get_pipeline_jobs",
                                 !.pipeline = r.val]
    /\ UNCHANGED <<state, inserted, inflight, evictions, last>>

\* lines 107-108
RequestJobs ==
    /\ fcall.fn = "get_pipeline_details"
    /\ fcall.pc = "get_pipeline_jobs"
    /\ LET pipeline == Unwrap(fcall.pipeline)
           r == get_pipeline_jobs(Unwrap(fcall.in).jobs[pipeline.id])
           sent == Append(fcall.requests, JobsRequest(pipeline.id))
       IN fcall' =
              IF ~r.ok
              THEN [fcall EXCEPT !.requests = sent, !.pc = "return", !.out = Some(r)]
              ELSE [fcall EXCEPT !.requests = sent, !.pc = "return",
                                 !.out = Some(Ok(Some(from_jobs(pipeline, r.val))))]
    /\ UNCHANGED <<state, inserted, inflight, evictions, last>>

InitClient ==
    /\ Default
    /\ fcall \in {[fn |-> "get_pipeline_details", in |-> Some(server), out |-> None,
                   pc |-> "get_pipeline_for_commit", pipeline |-> None,
                   requests |-> <<>>] : server \in Servers}

NextClient == RequestPipelines \/ RequestJobs

SpecClient == InitClient /\ [][NextClient]_vars

JobsRequests == LET Jobs(r) == r.kind = "jobs" IN SelectSeq(fcall.requests, Jobs)
Returned == fcall.pc = "return"

\* C16: the pipelines request is the first request; when it fails the error is
\* returned, when it answers with no pipeline Ok(None) is returned, and in both
\* cases no jobs request is ever sent; otherwise exactly one jobs request is
\* sent, for the id of the first pipeline, and when it fails an error is
\* returned, not Ok(None).
C16_RequestOrder ==
    fcall.fn = "get_pipeline_details" =>
        LET server == Unwrap(fcall.in)
            asked == server.pipelines
        IN /\ fcall.requests # <<>> => Head(fcall.requests) = PipelinesRequest
           /\ Returned => fcall.requests # <<>> /\ fcall.out # None
           /\ asked.tag # "parsed" =>
                  /\ JobsRequests = <<>>
                  /\ Returned => ~Unwrap(fcall.out).ok
           /\ (asked.tag = "parsed" /\ asked.body = <<>>) =>
                  /\ JobsRequests = <<>>
                  /\ Returned => fcall.out = Some(Ok(None))
           /\ (asked.tag = "parsed" /\ asked.body # <<>>) =>
                  /\ Len(JobsRequests) <= 1
                  /\ JobsRequests # <<>> => JobsRequests = <<JobsRequest(Head(asked.body).id)>>
                  /\ Returned =>
                         /\ Len(JobsRequests) = 1
                         /\ Len(fcall.requests) = 2
                         /\ server.jobs[Head(asked.body).id].tag # "parsed" =>
                                /\ ~Unwrap(fcall.out).ok
                                /\ fcall.out # Some(Ok(None))
                         /\ server.jobs[Head(asked.body).id].tag = "parsed" =>
                                /\ Unwrap(fcall.out).ok
                                /\ Unwrap(fcall.out).val # None

\* C16 witness: two pipelines are found, the jobs of the first are asked for, and
\* that request fails while the one for the second would not have
C16_Witness ==
    /\ fcall.fn = "get_pipeline_details"
    /\ Returned
    /\ Unwrap(fcall.in).pipelines.tag = "parsed"
    /\ Len(Unwrap(fcall.in).pipelines.body) = 2
    /\ Unwrap(fcall.in).pipelines.body[1].id # Unwrap(fcall.in).pipelines.body[2].id
    /\ Unwrap(fcall.in).jobs[Unwrap(fcall.in).pipelines.body[1].id].tag = "failed"
    /\ Unwrap(fcall.in).jobs[Unwrap(fcall.in).pipelines.body[2].id].tag = "parsed"
    /\ ~Unwrap(fcall.out).ok

---------------------------------------------------------------------------
(* SpecLayout: calculate_layout on rows of narrow, medium and wide stages  *)
(* in viewports of every width up to MaxWidth.                             *)

Chars(n) == [i \in 1..n |-> "x"]
NamedJob(len) == JobRecord(0, Chars(len), "", "Success", None, None)
\* ideal widths 16, 30 and 100
NarrowStage == NamedStage(Chars(4), <<NamedJob(3)>>)
MediumStage == NamedStage(Chars(22), <<>>)
WideStage == NamedStage(Chars(4), <<NamedJob(3), NamedJob(95)>>)
LayoutStages == {NarrowStage, MediumStage, WideStage}
LayoutInputs ==
    {[details |-> PipelineDetails(sts), area |-> [x |-> 0, y |-> 0, width |-> w, height |-> 10]] :
        sts \in SeqsUpTo(LayoutStages, MaxLayoutStages), w \in 0..MaxWidth}

CalculateLayout ==
    Apply("calculate_layout",
          calculate_layout(Unwrap(fcall.in).details, Unwrap(fcall.in).area))

InitLayout == Default /\ fcall \in Calls("calculate_layout", LayoutInputs)
SpecLayout == InitLayout /\ [][CalculateLayout]_vars

LaidOut == fcall.fn = "calculate_layout" /\ fcall.out # None
StagesIn == Unwrap(fcall.in).details.stages
WidthIn == Unwrap(fcall.in).area.width
BoxesOut == Unwrap(fcall.out).stages
Connectors == (Len(StagesIn) - 1) * CONNECTOR_WIDTH
RECURSIVE Total(_)
Total(ws) == IF ws = <<>> THEN 0 ELSE Head(ws) + Total(Tail(ws))
IdealWidths == [i \in 1..Len(StagesIn) |-> calculate_stage_width(StagesIn[i])]
\* each ideal width scaled by (W - connectors) / sum of ideal widths, rounded down,
\* and raised to at least MIN_STAGE_WIDTH
ShrunkWidths ==
    [i \in 1..Len(StagesIn) |->
        Max2((IdealWidths[i] * (WidthIn - Connectors)) \div Total(IdealWidths),
             MIN_STAGE_WIDTH)]
OneRow == \A i, k \in 1..Len(BoxesOut) : BoxesOut[i].y = BoxesOut[k].y

\* C17: when the ideal widths with the connectors exceed the viewport width and
\* the shrunk widths with the connectors fit in it, all stages stand in one row
\* with exactly the shrunk widths.
C17_ShrinkBeforeWrap ==
    (/\ LaidOut
     /\ StagesIn # <<>>
     /\ WidthIn >= Connectors
     /\ Total(IdealWidths) + Connectors > WidthIn
     /\ Total(ShrunkWidths) + Connectors <= WidthIn) =>
        /\ Len(BoxesOut) = Len(StagesIn)
        /\ OneRow
        /\ \A i \in 1..Len(BoxesOut) : BoxesOut[i].width = ShrunkWidths[i]

\* C17 witness: a row is shrunk in which one width was raised to the minimum
C17_Witness ==
    /\ LaidOut
    /\ Len(StagesIn) >= 2
    /\ WidthIn >= Connectors
    /\ Total(IdealWidths) + Connectors > WidthIn
    /\ Total(ShrunkWidths) + Connectors <= WidthIn
    /\ \E i \in 1..Len(StagesIn) :
           (IdealWidths[i] * (WidthIn - Connectors)) \div Total(IdealWidths) < MIN_STAGE_WIDTH
    /\ \E i \in 1..Len(StagesIn) : BoxesOut[i].width \notin {MIN_STAGE_WIDTH, IdealWidths[i]}

\* C18: in a viewport narrower than (number of stages x MIN_STAGE_WIDTH) the
\* stages are wrapped and every box is at least MIN_STAGE_WIDTH wide.
C18_WrapKeepsMinimum ==
    (LaidOut /\ WidthIn < Len(StagesIn) * MIN_STAGE_WIDTH) =>
        /\ Len(StagesIn) >= 2 => ~OneRow
        /\ \A i \in 1..Len(BoxesOut) : BoxesOut[i].width >= MIN_STAGE_WIDTH

\* C19: whenever (number of stages x MIN_STAGE_WIDTH) plus the connectors is at
\* most the viewport width, every box stands in the same row.
C19_WrapOnlyIfNeeded ==
    (LaidOut /\ StagesIn # <<>>
     /\ Len(StagesIn) * MIN_STAGE_WIDTH + Connectors <= WidthIn) => OneRow

AreaIn == Unwrap(fcall.in).area
\* the largest number of jobs among the stages from..to (1-based), 0 for none
MaxJobsOf(from, to) ==
    IF from > to THEN 0
    ELSE CHOOSE n \in {Len(StagesIn[i].jobs) : i \in from..to} :
             \A i \in from..to : Len(StagesIn[i].jobs) <= n
FitsIdeal == Total(IdealWidths) + Connectors <= WidthIn

\* C23: when the ideal widths with 5 columns per connector are at most the
\* viewport width W, all stages stand in one row: the same y for every box, box i
\* with its ideal width, consecutive boxes exactly 5 columns apart, the first box
\* at floor((W - total) / 2) from the left edge, and every box as high as the
\* largest job count of all stages plus 2.
C23_SingleRowCentered ==
    (LaidOut /\ FitsIdeal) =>
        /\ Len(BoxesOut) = Len(StagesIn)
        /\ OneRow
        /\ \A i \in 1..Len(BoxesOut) :
               /\ BoxesOut[i].width = IdealWidths[i]
               /\ BoxesOut[i].height = MaxJobsOf(1, Len(StagesIn)) + 2
        /\ \A i \in 1..(Len(BoxesOut) - 1) :
               BoxesOut[i + 1].x = BoxesOut[i].x + BoxesOut[i].width + CONNECTOR_WIDTH
        /\ BoxesOut # <<>> =>
               BoxesOut[1].x - AreaIn.x = (WidthIn - (Total(IdealWidths) + Connectors)) \div 2

\* C23 witness: three stages of different widths and job counts in one row, with
\* an odd number of columns left over
C23_Witness ==
    /\ LaidOut
    /\ FitsIdeal
    /\ Len(StagesIn) = 3
    /\ IdealWidths[1] < IdealWidths[2]
    /\ Len(StagesIn[1].jobs) > Len(StagesIn[2].jobs)
    /\ (WidthIn - (Total(IdealWidths) + Connectors)) % 2 = 1
    /\ BoxesOut[1].x > 0
    /\ BoxesOut[3].x = BoxesOut[1].x + IdealWidths[1] + IdealWidths[2] + 2 * CONNECTOR_WIDTH

\* neither the ideal nor the shrunk widths fit in one row
Wrapped ==
    /\ LaidOut
    /\ StagesIn # <<>>
    /\ ~FitsIdeal
    /\ ~(WidthIn >= Connectors /\ Total(ShrunkWidths) + Connectors <= WidthIn)
\* the stages in the row of box i, and the boxes that open a row
RowOf(i) == {k \in 1..Len(BoxesOut) : BoxesOut[k].y = BoxesOut[i].y}
RowMaxJobs(i) ==
    CHOOSE n \in {Len(StagesIn[k].jobs) : k \in RowOf(i)} :
        \A k \in RowOf(i) : Len(StagesIn[k].jobs) <= n
RowHeads == {i \in 1..Len(BoxesOut) : \A k \in RowOf(i) : i <= k}
RECURSIVE SumHeights(_)
SumHeights(heads) ==
    IF heads = {} THEN 0
    ELSE LET i == CHOOSE i \in heads : TRUE
         IN BoxesOut[i].height + SumHeights(heads \ {i})

\* C24: in the wrapped layout every box is as high as the largest job count of
\* the stages of its own row plus 2, each row after the first starts exactly one
\* line below the bottom of the row before it, and total_height is the sum of the
\* row heights plus (number of rows - 1).
C24_RowStacking ==
    Wrapped =>
        /\ Len(BoxesOut) = Len(StagesIn)
        /\ \A i \in 1..Len(BoxesOut) : BoxesOut[i].height = RowMaxJobs(i) + 2
        /\ \A i \in 1..(Len(BoxesOut) - 1) :
               \/ BoxesOut[i + 1].y = BoxesOut[i].y
               \/ BoxesOut[i + 1].y = BoxesOut[i].y + BoxesOut[i].height + 1
        /\ Unwrap(fcall.out).total_height = SumHeights(RowHeads) + Cardinality(RowHeads) - 1

\* C24 witness: a wrapped layout of two rows of different heights, one of them
\* with two stages of different job counts, the higher one second in its row
C24_Witness ==
    /\ Wrapped
    /\ Cardinality(RowHeads) = 2
    /\ \E i, k \in RowHeads : BoxesOut[i].height # BoxesOut[k].height
    /\ \E i \in RowHeads :
           /\ i + 1 \in RowOf(i)
           /\ Len(StagesIn[i].jobs) < Len(StagesIn[i + 1].jobs)
           /\ BoxesOut[i].height = Len(StagesIn[i + 1].jobs) + 2

\* C25: for every stage list, the empty one and stages without jobs included,
\* and every viewport width, calculate_layout returns exactly one box per stage in
\* stage order: no boxes and total height 0 for no stages, rows one below the
\* other, the boxes of a row from left to right, each starting at least 5 columns
\* after the end of the box before it, and every box horizontally inside the
\* viewport.
C25_ValidPlacement ==
    LaidOut =>
        /\ Len(BoxesOut) = Len(StagesIn)
        /\ StagesIn = <<>> => Unwrap(fcall.out).total_height = 0
        /\ \A i \in 1..(Len(BoxesOut) - 1) :
               \/ BoxesOut[i + 1].y > BoxesOut[i].y
               \/ /\ BoxesOut[i + 1].y = BoxesOut[i].y
                  /\ BoxesOut[i + 1].x >= BoxesOut[i].x + BoxesOut[i].width + CONNECTOR_WIDTH
        /\ \A i \in 1..Len(BoxesOut) :
               /\ AreaIn.x <= BoxesOut[i].x
               /\ BoxesOut[i].x + BoxesOut[i].width <= AreaIn.x + WidthIn

---------------------------------------------------------------------------
(* SpecRows: row_count on the pipelines and widths of SpecLayout, and on a *)
(* pane without a pipeline.                                                *)

RowInputs ==
    {[details |-> d, width |-> w] :
        d \in {None} \cup {Some(PipelineDetails(sts)) : sts \in SeqsUpTo(LayoutStages, MaxLayoutStages)},
        w \in 0..MaxWidth}

RowCount == Apply("row_count", row_count(Unwrap(fcall.in).details, Unwrap(fcall.in).width))

InitRows == Default /\ fcall \in Calls("row_count", RowInputs)
SpecRows == InitRows /\ [][RowCount]_vars

Counted == fcall.fn = "row_count" /\ fcall.out # None
\* the boxes calculate_layout makes of the same pipeline in a viewport of the
\* same width
BoxesFor(d, w) ==
    calculate_layout(d, [x |-> 0, y |-> 0, width |-> w, height |-> 10]).stages
DistinctRows(boxes) == Cardinality({boxes[i].y : i \in 1..Len(boxes)})

\* C26: row_count(W) is the number of distinct y values among the boxes that
\* calculate_layout produces for a viewport of width W, and it is 0 exactly when
\* there are no details or no stages.
C26_RowCountAgrees ==
    Counted =>
        LET d == Unwrap(fcall.in).details
            w == Unwrap(fcall.in).width
        IN /\ (Unwrap(fcall.out) = 0) <=> (d = None \/ Unwrap(d).stages = <<>>)
           /\ d # None => Unwrap(fcall.out) = DistinctRows(BoxesFor(Unwrap(d), w))

\* C26 witness: three rows are counted where two would do without the margin of
\* the rows after the first
C26_Witness ==
    /\ Counted
    /\ Unwrap(fcall.out) = 3
    /\ Unwrap(fcall.in).details # None
    /\ LET ws == [i \in 1..3 |-> calculate_stage_width(Unwrap(Unwrap(fcall.in).details).stages[i])]
       IN /\ ws[2] + CONNECTOR_WIDTH + ws[3] <= Unwrap(fcall.in).width
          /\ ws[1] > Unwrap(fcall.in).width

---------------------------------------------------------------------------
(* SpecRender: the pane is drawn while a commit is fetched, refreshed and  *)
(* browsed.                                                                *)

RenderAreas == {[x |-> 0, y |-> 0, width |-> w, height |-> h] : w \in {0, 40}, h \in {0, 2, 8}}

NextRender ==
    \/ \E sha \in {None, Some(1)} : SetLoading(sha)
    \/ \E sha \in {None, Some(1)}, d \in OptBrowsedDetails : SetPipeline(sha, d)
    \/ \E sha \in {None, Some(1)}, msg \in Messages : SetError(sha, msg)
    \/ SelectNextStage
    \/ SelectPrevStage
    \/ \E area \in RenderAreas : Render(area)

SpecRender == Init /\ [][NextRender]_vars

\* C20: drawn into an area with room, the pane shows a single status message and
\* no stage boxes while loading is true, while error is set, and while details
\* is None; the boxes are drawn only when none of the three holds.
C20_StatusMessageStates ==
    (/\ last.op = "render"
     /\ last.arg.area.width >= 1
     /\ last.arg.area.height >= 1
     /\ (loading \/ error # None \/ details = None)) =>
        last.arg.drawn.kind \in {"message", "error"}

---------------------------------------------------------------------------
(* SpecFollow: the pane is drawn while the cursor moves over pipelines of  *)
(* every shape, in areas wide enough for one row and areas so narrow that  *)
(* every stage gets a row of its own, higher and lower than the diagram.   *)

FollowAreas == {[x |-> 0, y |-> 0, width |-> w, height |-> h] : w \in {20, 40}, h \in {3, 5, 6}}

NextFollow ==
    \/ \E d \in ShapeDetails : details = None /\ SetPipeline(None, Some(d))
    \/ SelectNextStage
    \/ SelectPrevStage
    \/ \E area \in FollowAreas : Render(area)

SpecFollow == Init /\ [][NextFollow]_vars

\* the pass that was just made drew the boxes
BoxesDrawn == last.op = "render" /\ last.arg.drawn.kind = "boxes"
ContentArea == content_area_of(last.arg.area)
\* the box of the selected stage, in lines below the top of the content area
SelectedBox == calculate_layout(Unwrap(details), ContentArea).stages[selected_stage + 1]
SelectedTop == SelectedBox.y - ContentArea.y
SelectedFits ==
    /\ BoxesDrawn
    /\ selected_stage < Len(Unwrap(details).stages)
    /\ SelectedBox.height <= ContentArea.height

\* C21: after a render pass, when the box of the selected stage is at most as
\* high as the content viewport, every line of the box, top border through bottom
\* border, is inside the window [scroll_y, scroll_y + viewport height).
C21_SelectedBoxInWindow ==
    SelectedFits =>
        /\ scroll_y <= SelectedTop
        /\ SelectedTop + SelectedBox.height <= scroll_y + ContentArea.height

---------------------------------------------------------------------------
(* SpecParse: parse_gitlab_log on logs of up to MaxParseLines lines: output *)
(* lines with and without visible content, the start of a section, and its *)
(* end 45 seconds later and 10 seconds earlier; and the same markers with  *)
(* one more field in front of the timestamp.                               *)

\* the lines section_start:0:<ts>:<name> and section_end:0:<ts>:<name>
ShiftedStartLine(ts, name) == MarkerLine("section_start", <<"0", ":">> \o StartLine(ts, name).marker)
ShiftedEndLine(ts, name) == MarkerLine("section_end", <<"0", ":">> \o EndLine(ts, name).marker)

ParseLines == {Output(None, "ok"), Output(None, "done"), Output(None, ""),
               StartLine(100, BuildName), EndLine(145, BuildName), EndLine(90, BuildName),
               ShiftedStartLine(100, BuildName), ShiftedEndLine(145, BuildName)}
ParseInputs == SeqsUpTo(ParseLines, MaxParseLines)

ParseGitlabLog == Apply("parse_gitlab_log", parse_gitlab_log(Unwrap(fcall.in)))

InitParse == Default /\ fcall \in Calls("parse_gitlab_log", ParseInputs)
SpecParse == InitParse /\ [][ParseGitlabLog]_vars

Parsed == fcall.fn = "parse_gitlab_log" /\ fcall.out # None
RawLog == Unwrap(fcall.in)
Visible(line) == line.kind = "output" /\ line.content # ""
\* the log is section_start:<s>:<name>, visible output lines, section_end:<e>:<name>
SectionLog(s, e, name) ==
    /\ Len(RawLog) >= 3
    /\ RawLog[1] = StartLine(s, name)
    /\ RawLog[Len(RawLog)] = EndLine(e, name)
    /\ \A i \in 2..(Len(RawLog) - 1) : Visible(RawLog[i])
EndStamps == {90, 145}

\* C22: for a log section_start:<s>:<name>, one or more visible output lines,
\* section_end:<e>:<name>, parse_gitlab_log emits exactly the output lines, and
\* the last of them carries the duration max(0, e - s) as minutes and seconds.
C22_SectionDuration ==
    \A e \in EndStamps :
        (Parsed /\ SectionLog(100, e, BuildName)) =>
            LET out == Unwrap(fcall.out)
                n == Len(RawLog) - 2
            IN /\ Len(out) = n
               /\ \A i \in 1..n : out[i].content = RawLog[i + 1].content
               /\ out[n].duration = Some(<<SatSub(e, 100) \div 60, SatSub(e, 100) % 60>>)

---------------------------------------------------------------------------
(* The cache when an outcome is cached for a commit it already holds.      *)

\* a step that caches an outcome for a SHA the cache holds
RecacheStep == InsertStep /\ last'.had # None

\* C27: cache_result(sha, entry) for a sha that is already cached only replaces
\* that entry: every other cached SHA stays cached with its entry and the
\* eviction order is unchanged, also when the cache is full.
C27_RecacheReplacesOnly ==
    [][RecacheStep =>
          /\ DOMAIN cache' = DOMAIN cache
          /\ \A k \in DOMAIN cache \ {Unwrap(last'.sha)} : cache'[k] = cache[k]
          /\ cache_order' = cache_order]_vars

\* the keys of the eviction order that the map still holds after the step
StillCached(o, c) == LET Held(k) == k \in DOMAIN c IN SelectSeq(o, Held)

\* C28: cache_order holds exactly the keys of the cache map, each exactly once,
\* in the order of their most recent insertion as a new key: a call that caches
\* an outcome puts its SHA at the end when the cache did not hold it, and leaves
\* the keys that stay in the order they had.
C28_OrderOfInsertion ==
    /\ [](/\ Range(cache_order) = DOMAIN cache
          /\ Len(cache_order) = Cardinality(DOMAIN cache))
    /\ [][InsertStep =>
             cache_order' =
                 StillCached(cache_order, cache')
                     \o (IF last'.had = None THEN <<Unwrap(last'.sha)>> ELSE <<>>)]_vars

---------------------------------------------------------------------------
(* The pane after a fetch reported, and after the same outcome is shown    *)
(* from the cache.                                                         *)

\* a fetch reports for a commit: set_pipeline(Some(sha), ..) or set_error(Some(sha), ..)
ReportStep == last'.op \in {"set_pipeline", "set_error"} /\ last'.sha # None

\* C29: current_sha, details, error and loading right after the
\* set_pipeline(Some(sha), ..) or set_error(Some(sha), ..) call that creates a
\* cache entry are those that apply_cached(sha, entry) leaves (which do not
\* depend on the view before it).
C29_CachedViewAsFetched ==
    [][ReportStep =>
          LET shown == apply_cached_view(cache'[Unwrap(last'.sha)])
          IN /\ current_sha' = last'.sha
             /\ loading' = FALSE
             /\ details' = shown.details
             /\ error' = shown.error]_vars

---------------------------------------------------------------------------
(* SpecRefresh: commits are fetched and refreshed while the cursor moves   *)
(* and the pane is drawn in an area so narrow and low that the diagram is  *)
(* wrapped and scrolled.                                                   *)

RefreshAreas == {[x |-> 0, y |-> 0, width |-> 20, height |-> 4]}

NextRefresh ==
    \/ \E sha \in {None, Some(1)} : SetLoading(sha)
    \/ \E sha \in {None, Some(1)}, d \in {None, Some(BuildTest), Some(BuildOnly)} :
           SetPipeline(sha, d)
    \/ SelectNextStage
    \/ SelectNextJob
    \/ \E area \in RefreshAreas : Render(area)

SpecRefresh == Init /\ [][NextRefresh]_vars

\* C30: set_loading(sha) and set_pipeline(sha, ..) with sha equal to current_sha
\* leave selected_stage, selected_job, scroll_x and scroll_y unchanged, and
\* set_loading keeps the details; with a different sha set_loading clears the
\* details and resets the selection to (0, 0), and set_pipeline resets the
\* selection and both scroll offsets to 0.
C30_RefreshKeepsCursor ==
    [][/\ last'.op = "set_loading" =>
            IF last'.sha = current_sha
            THEN UNCHANGED <<selected_stage, selected_job, scroll_x, scroll_y, details>>
            ELSE details' = None /\ selected_stage' = 0 /\ selected_job' = 0
       /\ last'.op = "set_pipeline" =>
            IF last'.sha = current_sha
            THEN UNCHANGED <<selected_stage, selected_job, scroll_x, scroll_y>>
            ELSE /\ selected_stage' = 0 /\ selected_job' = 0
                 /\ scroll_x' = 0 /\ scroll_y' = 0]_vars

\* C30 witness: the commit shown was refreshed with the cursor on the second
\* stage and the diagram scrolled (a result for another commit would have reset
\* both)
C30_Witness ==
    /\ last.op = "set_pipeline"
    /\ last.sha = Some(1)
    /\ current_sha = Some(1)
    /\ selected_stage = 1
    /\ scroll_y > 0

====
